---- MODULE Spec2Model ----
(***************************************************************************)
(* static_class_property: the read-only computed attribute                 *)
(* (GetOnlyProperty / classproperty) and the metaclass that protects it    *)
(* on the class object (MetaClassContainingClassProperties), as a state    *)
(* machine over class objects and their instances.                         *)
(*                                                                         *)
(* A class object is its metaclass, its direct bases, its __mro__, its own *)
(* __dict__ restricted to the attribute names of interest, and its own     *)
(* "_cantchange" entry (decl keeps the namespace its class statement       *)
(* declared).  An instance is its runtime class and its own                *)
(* __dict__.  Attribute reads are pure and are operators; class creation,  *)
(* instantiation, class-level assignment, instance-level assignment and    *)
(* instance-level deletion are the actions.                                *)
(***************************************************************************)
EXTENDS Naturals, Sequences, FiniteSets, TLC

VARIABLES classes, instances, class_writes, inst_writes, last

vars == <<classes, instances, class_writes, inst_writes, last>>

---------------------------------------------------------------------------
(* Bounds of the exploration *)

MaxClasses == 3
MaxInstances == 2
MaxObjects == 4
MaxBases == 2
MaxClassWrites == 1
MaxInstWrites == 1

---------------------------------------------------------------------------
(* Names and values *)

\* the state field the computation functions read, and the computed attribute
StateName == "class_variable"
PropName == "static_property"
AttrNames == {StateName, PropName}
\* the registry's own name, and the name ABCMeta assigns during class creation
Registry == "_cantchange"
AbcName == "__abstractmethods__"

\* An attribute value is <<kind, payload, _name>>.
Absent == <<"absent", "", "">>
Plain(v) == <<"plain", v, "">>
DeclValues == {"extra"}
AssignValues == {"new"}

\* the computation functions of the tests
FGets == {"static_property", "abstract"}

\* GetOnlyProperty.__init__: fget bound, _name empty
GetOnlyProperty_init(fget) == <<"classproperty", fget, "">>

\* GetOnlyProperty.__set_name__, which type.__new__ calls on every descriptor of the namespace
set_name(val, name) == IF val[1] = "classproperty" THEN <<val[1], val[2], name>> ELSE val

\* isinstance(attrval, classproperty)
IsClassProperty(val) == val[1] = "classproperty"

\* the metaclasses: plain type, the enforcer, the enforcer combined with ABCMeta
Metaclasses == <<"type", "MetaClassContainingClassProperties", "MetaABC">>
Rank(m) == CHOOSE k \in 1..Len(Metaclasses) : Metaclasses[k] = m

\* values a later assignment may bind the registry to
RegistryValues == {{}, AttrNames \cup {AbcName}}

ClassIds == 1..Len(classes)
InstIds == 1..Len(instances)

---------------------------------------------------------------------------
(* Attribute resolution *)

\* first entry of name along an __mro__ (a sequence of class ids)
RECURSIVE LookupMro(_, _)
LookupMro(mro, name) ==
    IF mro = <<>> THEN Absent
    ELSE IF classes[Head(mro)].dict[name] # Absent THEN classes[Head(mro)].dict[name]
    ELSE LookupMro(Tail(mro), name)

\* getattr(cls, "_cantchange") along an __mro__: <<>> when hasattr is false
RECURSIVE LookupRegistry(_)
LookupRegistry(mro) ==
    IF mro = <<>> THEN <<>>
    ELSE IF classes[Head(mro)].reg # <<>> THEN classes[Head(mro)].reg
    ELSE LookupRegistry(Tail(mro))

\* variant: the state is read from the class at the root of the hierarchy
\* instead of the class the read went through
CallFGet_defining_class(fget, cls) ==
    IF fget = "abstract" THEN <<"NotImplementedError", "", "">>
    ELSE LET mro == classes[cls].mro
             cv == LookupMro(<<mro[Len(mro)]>>, StateName)
         IN IF cv = Absent THEN <<"AttributeError", "", StateName>>
            ELSE <<"ok", "static_property_", cv[2]>>

\* the computation functions: f"static_property_{cls.class_variable}" and friends
CallFGet(fget, cls) ==
    IF fget = "abstract" THEN <<"NotImplementedError", "", "">>
    ELSE LET cv == LookupMro(classes[cls].mro, StateName)
         IN IF cv = Absent THEN <<"AttributeError", "", StateName>>
            ELSE <<"ok", "static_property_", cv[2]>>

\* classproperty.__get__(instance, instance_type): classmethod(fget) bound to instance_type
classproperty_get(desc, instance_type) == CallFGet(desc[2], instance_type)

\* type.__getattribute__: Class.name
ClassGetAttr(c, name) ==
    LET val == LookupMro(classes[c].mro, name)
    IN IF val = Absent THEN <<"AttributeError", "", name>>
       ELSE IF IsClassProperty(val) THEN classproperty_get(val, c)
       ELSE <<"ok", "", val[2]>>

\* variant: GetOnlyProperty.__get__ left in charge, fget(obj): the function
\* reads its state through the instance
InstGetAttr_fget_obj(i, name) ==
    LET c == instances[i].cls
        val == LookupMro(classes[c].mro, name)
        own == instances[i].dict[StateName]
    IN IF IsClassProperty(val)
       THEN IF val[2] # "abstract" /\ own # Absent
            THEN <<"ok", "static_property_", own[2]>>
            ELSE classproperty_get(val, c)
       ELSE IF instances[i].dict[name] # Absent THEN <<"ok", "", instances[i].dict[name][2]>>
       ELSE IF val # Absent THEN <<"ok", "", val[2]>>
       ELSE <<"AttributeError", "", name>>

\* object.__getattribute__: instance.name
InstGetAttr(i, name) ==
    LET c == instances[i].cls
        val == LookupMro(classes[c].mro, name)
    IN IF IsClassProperty(val) THEN classproperty_get(val, c)
       ELSE IF instances[i].dict[name] # Absent THEN <<"ok", "", instances[i].dict[name][2]>>
       ELSE IF val # Absent THEN <<"ok", "", val[2]>>
       ELSE <<"AttributeError", "", name>>

---------------------------------------------------------------------------
(* Class creation *)

\* the metaclass a class statement ends up with: the most derived of the
\* explicit one and those of the bases
DerivedMeta(m, bases) ==
    LET ms == {m} \cup {classes[bases[k]].meta : k \in 1..Len(bases)}
    IN CHOOSE x \in ms : \A y \in ms : Rank(y) <= Rank(x)

\* C3 linearisation, as type.__new__ computes __mro__; 0 marks an inconsistent order
RECURSIVE Merge(_)
Merge(seqs) ==
    LET ne == SelectSeq(seqs, LAMBDA s : s # <<>>)
    IN IF ne = <<>> THEN <<>>
       ELSE LET InTail(h) == \E i \in 1..Len(ne) : \E j \in 2..Len(ne[i]) : ne[i][j] = h
                cands == {i \in 1..Len(ne) : ~InTail(Head(ne[i]))}
            IN IF cands = {} THEN <<0>>
               ELSE LET i0 == CHOOSE i \in cands : \A j \in cands : i <= j
                        h == Head(ne[i0])
                    IN <<h>> \o Merge([k \in 1..Len(ne) |->
                                         IF Head(ne[k]) = h THEN Tail(ne[k]) ELSE ne[k]])

Mro(c, bases) == <<c>> \o Merge([k \in 1..Len(bases) |-> classes[bases[k]].mro] \o <<bases>>)
MroOk(mro) == \A k \in 1..Len(mro) : mro[k] # 0

\* variant: an overridden name is not skipped in the loop over the bases
CantChangeAtCreation_keeps_overridden(attrs, bases) ==
    {n \in AttrNames : IsClassProperty(attrs[n])}
    \cup UNION { {n \in AttrNames : IsClassProperty(classes[bases[k]].dict[n])}
                 : k \in 1..Len(bases) }

\* variant: no loop over the bases
CantChangeAtCreation_own_only(attrs, bases) ==
    {n \in AttrNames : IsClassProperty(attrs[n])}

\* variant: the loop over the bases follows each base's own inheritance
CantChangeAtCreation_transitive(attrs, bases) ==
    {n \in AttrNames : IsClassProperty(attrs[n])}
    \cup UNION { {n \in AttrNames : /\ IsClassProperty(LookupMro(classes[bases[k]].mro, n))
                                    /\ attrs[n] = Absent}
                 : k \in 1..Len(bases) }

\* MetaClassContainingClassProperties.__new__: the names stored in _cantchange
CantChangeAtCreation(attrs, bases) ==
    {n \in AttrNames : IsClassProperty(attrs[n])}
    \cup UNION { {n \in AttrNames : /\ IsClassProperty(classes[bases[k]].dict[n])
                                    /\ attrs[n] = Absent}
                 : k \in 1..Len(bases) }

\* variant: the membership test is missing
setattr_rejects_any_name(reg, attr) ==
    /\ attr # Registry
    /\ reg # <<>>

\* variant: the hasattr guard is missing, a class without the registry fails
setattr_rejects_no_hasattr(reg, attr) ==
    /\ attr # Registry
    /\ (reg = <<>> \/ attr \in reg[1])

\* variant: the registry's own name is checked like any other and refused
setattr_rejects_registry_too(reg, attr) ==
    /\ reg # <<>>
    /\ (attr = Registry \/ attr \in reg[1])

\* MetaClassContainingClassProperties.__setattr__: the check before the change;
\* reg is getattr(cls, "_cantchange"), <<>> when hasattr(cls, "_cantchange") is false
setattr_rejects(reg, attr) ==
    /\ attr # Registry
    /\ reg # <<>>
    /\ attr \in reg[1]

\* the class bodies that are declared: the computed attribute declared by a
\* decorator, as an ordinary value, or not at all; the state field declared
\* or not
Body(s, p) == [n \in AttrNames |-> IF n = StateName THEN s ELSE p]
PropDecls == {Absent} \cup {Plain(v) : v \in DeclValues} \cup {GetOnlyProperty_init(f) : f \in FGets}

RECURSIVE SeqsUpTo(_, _)
SeqsUpTo(S, n) ==
    IF n = 0 THEN {<<>>}
    ELSE LET shorter == SeqsUpTo(S, n - 1)
         IN shorter \cup {Append(s, x) : s \in shorter, x \in S}

BaseLists ==
    {bs \in SeqsUpTo(ClassIds, MaxBases) : \A i, j \in 1..Len(bs) : i # j => bs[i] # bs[j]}

NoOp == [op |-> "init", cls |-> 0, inst |-> 0, attr |-> "", value |-> Absent,
         reg |-> <<>>, exc |-> "", named |-> ""]

\* class NAME(*bases, metaclass=m): body
CreateClass(m, bases, body) ==
    /\ Len(classes) < MaxClasses
    /\ Len(classes) + Len(instances) < MaxObjects
    /\ LET c == Len(classes) + 1
           meta == DerivedMeta(m, bases)
           mro == Mro(c, bases)
           attrs == [n \in AttrNames |-> set_name(body[n], n)]
           cantchange == CantChangeAtCreation(attrs, bases)
           \* getattr(new_instance, "_cantchange") before __new__ has stored it
           inherited == LookupRegistry(Tail(mro))
           new_instance == [meta |-> meta, bases |-> bases, mro |-> mro, decl |-> attrs,
                            dict |-> attrs, reg |-> <<>>]
           done == [NoOp EXCEPT !.op = "create", !.cls = c]
           raised(exc, attr) == [done EXCEPT !.cls = 0, !.attr = attr, !.exc = exc, !.named = attr]
       IN IF ~MroOk(mro)
          THEN \* type.__new__: no consistent method resolution order
               /\ last' = raised("TypeError", "")
               /\ UNCHANGED <<classes, instances, class_writes, inst_writes>>
          ELSE IF meta = "type"
          THEN /\ classes' = Append(classes, new_instance)
               /\ last' = done
               /\ UNCHANGED <<instances, class_writes, inst_writes>>
          ELSE IF meta = "MetaABC" /\ setattr_rejects(inherited, AbcName)
          THEN \* ABCMeta.__new__ assigns __abstractmethods__ through __setattr__
               /\ last' = raised("ValueError", AbcName)
               /\ UNCHANGED <<classes, instances, class_writes, inst_writes>>
          ELSE IF setattr_rejects(inherited, Registry)
          THEN \* new_instance._cantchange = ... goes through __setattr__ too
               /\ last' = raised("ValueError", Registry)
               /\ UNCHANGED <<classes, instances, class_writes, inst_writes>>
          ELSE /\ classes' = Append(classes, [new_instance EXCEPT !.reg = <<cantchange>>])
               /\ last' = done
               /\ UNCHANGED <<instances, class_writes, inst_writes>>

\* Class()
NewInstance(c) ==
    /\ Len(instances) < MaxInstances
    /\ Len(classes) + Len(instances) < MaxObjects
    /\ instances' = Append(instances, [cls |-> c, dict |-> [n \in AttrNames |-> Absent]])
    /\ last' = [NoOp EXCEPT !.op = "new", !.cls = c, !.inst = Len(instances) + 1]
    /\ UNCHANGED <<classes, class_writes, inst_writes>>

---------------------------------------------------------------------------
(* Assignment and deletion *)

\* variant: the descriptor guards the class-level assignment as well, with
\* or without the metaclass
ClassSetRejected_by_descriptor(c, attr) ==
    \/ /\ attr \in AttrNames
       /\ IsClassProperty(LookupMro(classes[c].mro, attr))
    \/ /\ classes[c].meta # "type"
       /\ setattr_rejects(LookupRegistry(classes[c].mro), attr)

\* whether Class.attr = value is refused by the metaclass of c
ClassSetRejected(c, attr) ==
    /\ classes[c].meta # "type"
    /\ setattr_rejects(LookupRegistry(classes[c].mro), attr)

\* Class.attr = value, attr an ordinary name
ClassSetAttr(c, attr, v) ==
    LET done == [NoOp EXCEPT !.op = "class_set", !.cls = c, !.attr = attr, !.value = Plain(v)]
    IN IF ClassSetRejected(c, attr)
       THEN /\ last' = [done EXCEPT !.exc = "ValueError", !.named = attr]
            /\ UNCHANGED <<classes, instances, class_writes, inst_writes>>
       ELSE /\ class_writes < MaxClassWrites
            /\ classes' = [classes EXCEPT ![c].dict[attr] = Plain(v)]
            /\ class_writes' = class_writes + 1
            /\ last' = done
            /\ UNCHANGED <<instances, inst_writes>>

\* Class._cantchange = names
ClassSetRegistry(c, names) ==
    LET done == [NoOp EXCEPT !.op = "class_set", !.cls = c, !.attr = Registry,
                             !.reg = <<names>>]
    IN IF ClassSetRejected(c, Registry)
       THEN /\ last' = [done EXCEPT !.exc = "ValueError", !.named = Registry]
            /\ UNCHANGED <<classes, instances, class_writes, inst_writes>>
       ELSE /\ class_writes < MaxClassWrites
            /\ classes' = [classes EXCEPT ![c].reg = <<names>>]
            /\ class_writes' = class_writes + 1
            /\ last' = done
            /\ UNCHANGED <<instances, inst_writes>>

\* variant: only the class's own namespace is searched for the descriptor
DataDescriptor_own_dict(i, attr) == classes[instances[i].cls].dict[attr]

\* the descriptor that intercepts instance.attr = v and del instance.attr
DataDescriptor(i, attr) == LookupMro(classes[instances[i].cls].mro, attr)

\* instance.attr = v
InstSetAttr(i, attr, v) ==
    LET desc == DataDescriptor(i, attr)
        done == [NoOp EXCEPT !.op = "inst_set", !.cls = instances[i].cls, !.inst = i,
                             !.attr = attr, !.value = Plain(v)]
    IN IF IsClassProperty(desc)
       THEN \* GetOnlyProperty.__set__
            /\ last' = [done EXCEPT !.exc = "AttributeError", !.named = desc[3]]
            /\ UNCHANGED <<classes, instances, class_writes, inst_writes>>
       ELSE /\ inst_writes < MaxInstWrites
            /\ instances' = [instances EXCEPT ![i].dict[attr] = Plain(v)]
            /\ inst_writes' = inst_writes + 1
            /\ last' = done
            /\ UNCHANGED <<classes, class_writes>>

\* del instance.attr
InstDelAttr(i, attr) ==
    LET desc == DataDescriptor(i, attr)
        done == [NoOp EXCEPT !.op = "inst_del", !.cls = instances[i].cls, !.inst = i,
                             !.attr = attr]
    IN IF IsClassProperty(desc)
       THEN \* GetOnlyProperty.__delete__
            /\ last' = [done EXCEPT !.exc = "AttributeError", !.named = desc[3]]
            /\ UNCHANGED <<classes, instances, class_writes, inst_writes>>
       ELSE IF instances[i].dict[attr] = Absent
       THEN /\ last' = [done EXCEPT !.exc = "AttributeError", !.named = attr]
            /\ UNCHANGED <<classes, instances, class_writes, inst_writes>>
       ELSE /\ inst_writes < MaxInstWrites
            /\ instances' = [instances EXCEPT ![i].dict[attr] = Absent]
            /\ inst_writes' = inst_writes + 1
            /\ last' = done
            /\ UNCHANGED <<classes, class_writes>>

---------------------------------------------------------------------------
(* The machine *)

Init ==
    /\ classes = <<>>
    /\ instances = <<>>
    /\ class_writes = 0
    /\ inst_writes = 0
    /\ last = NoOp

Next ==
    \/ /\ classes = <<>>
       /\ \E m \in {Metaclasses[k] : k \in 1..Len(Metaclasses)}, v \in DeclValues, p \in PropDecls :
             CreateClass(m, <<>>, Body(Plain(v), p))
    \/ \E bases \in BaseLists \ {<<>>}, p \in PropDecls :
          CreateClass("type", bases, Body(Absent, p))
    \/ \E c \in ClassIds : NewInstance(c)
    \/ \E c \in ClassIds, attr \in AttrNames, v \in AssignValues : ClassSetAttr(c, attr, v)
    \/ \E c \in ClassIds, names \in RegistryValues : ClassSetRegistry(c, names)
    \/ \E i \in InstIds, attr \in AttrNames, v \in AssignValues : InstSetAttr(i, attr, v)
    \/ \E i \in InstIds, attr \in AttrNames : InstDelAttr(i, attr)

Spec == Init /\ [][Next]_vars

---------------------------------------------------------------------------
(* Vocabulary of the properties *)

Resolves(c, name) == LookupMro(classes[c].mro, name)
Enforced(c) == classes[c].meta # "type"
InstancesOf(c) == {i \in InstIds : instances[i].cls = c}
Ok(v) == <<"ok", "", v>>

\* the class-level value of the state field that c sees
StateOf(c) == Resolves(c, StateName)[2]

---------------------------------------------------------------------------
(* C1: under the enforcing metaclass a class-level assignment Class.n = v  *)
(* raises ValueError naming n exactly when n is in the class's own         *)
(* _cantchange; a rejected assignment leaves the class and every read      *)
(* through the class and its instances as they were; an accepted one is    *)
(* performed and the class then reads v.                                   *)
C1_ClassAssignmentChecked ==
    [][ \A c \in ClassIds, n \in AttrNames \cup {Registry} :
        (last'.op = "class_set" /\ last'.cls = c /\ last'.attr = n /\ Enforced(c)) =>
           /\ last'.exc \in {"", "ValueError"}
           /\ (last'.exc = "ValueError") <=> (n \in classes[c].reg[1])
           /\ last'.exc = "ValueError" =>
                /\ last'.named = n
                /\ classes' = classes
                /\ instances' = instances
                /\ \A k \in ClassIds, a \in AttrNames : ClassGetAttr(k, a)' = ClassGetAttr(k, a)
                /\ \A i \in InstIds, a \in AttrNames : InstGetAttr(i, a)' = InstGetAttr(i, a)
           /\ last'.exc = "" =>
                IF n = Registry THEN classes'[c].reg = last'.reg
                ELSE /\ classes'[c].dict[n] = last'.value
                     /\ ClassGetAttr(c, n)' = Ok(last'.value[2])
      ]_vars

\* a subclass has just refused Class.static_property = v and still computes it
C1_Witness ==
    /\ last.op = "class_set"
    /\ last.exc = "ValueError"
    /\ last.attr = PropName
    /\ Enforced(last.cls)
    /\ classes[last.cls].bases # <<>>
    /\ ClassGetAttr(last.cls, PropName) = <<"ok", "static_property_", StateOf(last.cls)>>
    /\ \E i \in InstancesOf(last.cls) : InstGetAttr(i, PropName) = ClassGetAttr(last.cls, PropName)

---------------------------------------------------------------------------
(* C2, as claimed: an instance-level write or delete of a name the class   *)
(* declared as a computed attribute always raises AttributeError naming it *)
(* and changes nothing, in every reachable state.                          *)
C2_Original ==
    [][ (/\ last'.op \in {"inst_set", "inst_del"}
         /\ IsClassProperty(classes[last'.cls].decl[last'.attr])) =>
        /\ last'.exc = "AttributeError"
        /\ last'.named = last'.attr
        /\ classes' = classes
        /\ instances' = instances
      ]_vars

(* C2, amended: an instance-level write or delete of a name that resolves, *)
(* along the __mro__ of the instance's class, to a computed-attribute      *)
(* descriptor raises AttributeError naming it and changes neither the      *)
(* instance nor the class, with or without the enforcing metaclass.        *)
C2_DescriptorRefusesInstanceWrite ==
    [][ (/\ last'.op \in {"inst_set", "inst_del"}
         /\ IsClassProperty(Resolves(last'.cls, last'.attr))) =>
        /\ last'.exc = "AttributeError"
        /\ last'.named = last'.attr
        /\ classes' = classes
        /\ instances' = instances
        /\ \A k \in ClassIds, a \in AttrNames : ClassGetAttr(k, a)' = ClassGetAttr(k, a)
        /\ \A i \in InstIds, a \in AttrNames : InstGetAttr(i, a)' = InstGetAttr(i, a)
      ]_vars

\* an instance of a subclass without the metaclass has just been refused a
\* delete of the computed attribute it inherits
C2_Witness ==
    /\ last.op = "inst_del"
    /\ last.exc = "AttributeError"
    /\ last.named = PropName
    /\ ~Enforced(last.cls)
    /\ classes[last.cls].dict[PropName] = Absent
    /\ IsClassProperty(Resolves(last.cls, PropName))
    /\ instances[last.inst].dict[PropName] = Absent

---------------------------------------------------------------------------
(* C3: while static_property resolves to its descriptor for class C, a     *)
(* read through C and through every instance of C returns the computation  *)
(* function applied to C itself, on the class-level state C sees now.      *)
C3_Expected(c, fget) ==
    IF fget = "abstract" THEN <<"NotImplementedError", "", "">>
    ELSE IF Resolves(c, StateName) = Absent THEN <<"AttributeError", "", StateName>>
    ELSE <<"ok", "static_property_", StateOf(c)>>

C3_ReadsRuntimeClassState ==
    \A c \in ClassIds :
        LET desc == Resolves(c, PropName)
        IN IsClassProperty(desc) =>
             /\ ClassGetAttr(c, PropName) = C3_Expected(c, desc[2])
             /\ \A i \in InstancesOf(c) : InstGetAttr(i, PropName) = C3_Expected(c, desc[2])

\* a subclass that inherits the attribute has just been given its own state:
\* it and its earlier instance read the new value, its base the old one
C3_Witness ==
    /\ last.op = "class_set"
    /\ last.exc = ""
    /\ last.attr = StateName
    /\ classes[last.cls].bases # <<>>
    /\ classes[last.cls].dict[PropName] = Absent
    /\ ClassGetAttr(last.cls, PropName) = <<"ok", "static_property_", "new">>
    /\ ClassGetAttr(classes[last.cls].bases[1], PropName) = <<"ok", "static_property_", "extra">>
    /\ \E i \in InstancesOf(last.cls) : InstGetAttr(i, PropName) = <<"ok", "static_property_", "new">>

---------------------------------------------------------------------------
(* C4: without the enforcing metaclass, Class.static_property = v on a     *)
(* class for which the name is the computed attribute succeeds, and the    *)
(* class and every instance of it, earlier or later, then read v.          *)
C4_UnenforcedClassAssignment ==
    /\ [][ \A c \in ClassIds :
           (/\ last'.op = "class_set"
            /\ last'.cls = c
            /\ ~Enforced(c)
            /\ last'.attr = PropName
            /\ IsClassProperty(Resolves(c, PropName))) =>
              /\ last'.exc = ""
              /\ ClassGetAttr(c, PropName)' = Ok(last'.value[2])
              /\ \A i \in InstancesOf(c) : InstGetAttr(i, PropName)' = Ok(last'.value[2])
         ]_vars
    /\ [][ \A c \in ClassIds, i \in 1..MaxInstances :
           (/\ last'.op = "new"
            /\ last'.cls = c
            /\ last'.inst = i
            /\ ~Enforced(c)
            /\ ~IsClassProperty(Resolves(c, PropName))) =>
              InstGetAttr(i, PropName)' = ClassGetAttr(c, PropName)
         ]_vars

\* the computed attribute has just been replaced on a class without the
\* metaclass, and an earlier instance reads the replacement
C4_Witness ==
    /\ last.op = "class_set"
    /\ last.exc = ""
    /\ last.attr = PropName
    /\ ~Enforced(last.cls)
    /\ IsClassProperty(classes[last.cls].decl[PropName])
    /\ ClassGetAttr(last.cls, PropName) = Ok("new")
    /\ \E i \in InstancesOf(last.cls) : InstGetAttr(i, PropName) = Ok("new")

---------------------------------------------------------------------------
(* C5: an instance-level assignment to a name that is not a computed       *)
(* attribute succeeds and changes that instance's own namespace only: the  *)
(* classes, every class-level read, every read through another instance,   *)
(* earlier or later, and the computed attribute read through the assigning *)
(* instance stay as they were.                                             *)
C5_InstanceAssignmentIsLocal ==
    /\ [][ \A i \in InstIds, n \in AttrNames :
           (/\ last'.op = "inst_set"
            /\ last'.inst = i
            /\ last'.attr = n
            /\ ~IsClassProperty(Resolves(instances[i].cls, n))) =>
              /\ last'.exc = ""
              /\ classes' = classes
              /\ instances' = [instances EXCEPT ![i].dict[n] = last'.value]
              /\ InstGetAttr(i, n)' = Ok(last'.value[2])
              /\ \A k \in ClassIds, a \in AttrNames : ClassGetAttr(k, a)' = ClassGetAttr(k, a)
              /\ \A j \in InstIds \ {i}, a \in AttrNames : InstGetAttr(j, a)' = InstGetAttr(j, a)
              /\ IsClassProperty(Resolves(instances[i].cls, PropName)) =>
                   /\ InstGetAttr(i, PropName)' = InstGetAttr(i, PropName)
                   /\ InstGetAttr(i, PropName)' = ClassGetAttr(instances[i].cls, PropName)
         ]_vars
    /\ [][ \A c \in ClassIds, i \in 1..MaxInstances :
           (last'.op = "new" /\ last'.cls = c /\ last'.inst = i) =>
              \A a \in AttrNames : InstGetAttr(i, a)' = ClassGetAttr(c, a)
         ]_vars

\* one instance has just been given its own state field; the class, the other
\* instance and the computed attribute keep the class-level value
C5_Witness ==
    /\ last.op = "inst_set"
    /\ last.exc = ""
    /\ last.attr = StateName
    /\ InstGetAttr(last.inst, StateName) = Ok("new")
    /\ ClassGetAttr(last.cls, StateName) = Ok("extra")
    /\ InstGetAttr(last.inst, PropName) = <<"ok", "static_property_", "extra">>
    /\ \E j \in InstancesOf(last.cls) \ {last.inst} : InstGetAttr(j, StateName) = Ok("extra")

---------------------------------------------------------------------------
(* C6: the set __new__ stores on a class created under the enforcing       *)
(* metaclass is {own names bound to a classproperty} union {names bound to *)
(* a classproperty in the own namespace of a direct base and absent from   *)
(* the new class's own namespace}: a name redeclared as an ordinary value  *)
(* is left out, a name redeclared as a computed attribute is in.           *)
C6_RegistryAtCreation ==
    [][ \A c \in 1..MaxClasses :
        (/\ last'.op = "create"
         /\ last'.cls = c
         /\ classes'[c].meta # "type") =>
           LET own == classes'[c].dict
               bs == classes'[c].bases
               declared == {n \in AttrNames : IsClassProperty(own[n])}
               inherited == {n \in AttrNames :
                               /\ own[n] = Absent
                               /\ \E k \in 1..Len(bs) : IsClassProperty(classes[bs[k]].dict[n])}
           IN /\ classes'[c].reg = <<declared \cup inherited>>
              /\ \A n \in AttrNames :
                   /\ own[n][1] = "plain" => n \notin classes'[c].reg[1]
                   /\ own[n][1] = "classproperty" => n \in classes'[c].reg[1]
      ]_vars

\* a class has just been created that redeclares, as an ordinary value, the
\* computed attribute of one of its two direct bases: its set is empty
C6_Witness ==
    /\ last.op = "create"
    /\ last.cls = Len(classes)
    /\ Enforced(last.cls)
    /\ Len(classes[last.cls].bases) = 2
    /\ classes[last.cls].dict[PropName][1] = "plain"
    /\ \E k \in 1..2 : IsClassProperty(classes[classes[last.cls].bases[k]].dict[PropName])
    /\ classes[last.cls].reg = <<{}>>

---------------------------------------------------------------------------
---------------------------------------------------------------------------
(* C8: with the enforcer combined with ABCMeta, a computed attribute whose *)
(* function raises NotImplementedError raises it through the class and     *)
(* through its instances, a concrete override computes its own value, the  *)
(* class statement itself is not refused, a declared computed attribute is *)
(* in the set stored at creation and its class-level assignment is refused *)
(* with ValueError, and its instance-level assignment with AttributeError. *)
C8_ReadsUnderABC ==
    \A c \in ClassIds :
        LET desc == Resolves(c, PropName)
        IN (classes[c].meta = "MetaABC" /\ IsClassProperty(desc)) =>
             IF desc[2] = "abstract"
             THEN /\ ClassGetAttr(c, PropName)[1] = "NotImplementedError"
                  /\ \A i \in InstancesOf(c) : InstGetAttr(i, PropName)[1] = "NotImplementedError"
             ELSE /\ ClassGetAttr(c, PropName) = <<"ok", "static_property_", StateOf(c)>>
                  /\ \A i \in InstancesOf(c) :
                       InstGetAttr(i, PropName) = <<"ok", "static_property_", StateOf(c)>>

C8_ComposesWithABCMeta ==
    /\ []C8_ReadsUnderABC
    /\ [][ \A c \in 1..MaxClasses :
           (last'.op = "create" /\ last'.cls = c /\ classes'[c].meta = "MetaABC") =>
              /\ last'.exc = ""
              /\ IsClassProperty(classes'[c].dict[PropName]) =>
                   /\ PropName \in classes'[c].reg[1]
                   /\ ClassSetRejected(c, PropName)'
         ]_vars
    /\ [][ (last'.op = "create" /\ last'.exc = "ValueError") =>
              \E b \in ClassIds : classes[b].reg # <<>> /\ last'.named \in classes[b].reg[1]
         ]_vars
    /\ [][ \A c \in ClassIds :
           (/\ last'.op = "class_set"
            /\ last'.cls = c
            /\ last'.attr = PropName
            /\ classes[c].meta = "MetaABC"
            /\ PropName \in classes[c].reg[1]) =>
              /\ last'.exc = "ValueError"
              /\ last'.named = PropName
              /\ classes' = classes
         ]_vars
    /\ [][ \A i \in InstIds :
           (/\ last'.op = "inst_set"
            /\ last'.inst = i
            /\ last'.attr = PropName
            /\ classes[instances[i].cls].meta = "MetaABC"
            /\ IsClassProperty(Resolves(instances[i].cls, PropName))) =>
              /\ last'.exc = "AttributeError"
              /\ last'.named = PropName
              /\ instances' = instances
         ]_vars

\* the concrete subclass of an abstract class has just refused the
\* class-level assignment; the abstract class raises, the subclass computes
C8_Witness ==
    /\ last.op = "class_set"
    /\ last.exc = "ValueError"
    /\ last.attr = PropName
    /\ classes[last.cls].meta = "MetaABC"
    /\ Len(classes[last.cls].bases) = 1
    /\ classes[last.cls].dict[PropName] = <<"classproperty", "static_property", PropName>>
    /\ classes[classes[last.cls].bases[1]].dict[PropName] = <<"classproperty", "abstract", PropName>>
    /\ ClassGetAttr(classes[last.cls].bases[1], PropName)[1] = "NotImplementedError"
    /\ ClassSetRejected(classes[last.cls].bases[1], PropName)
    /\ ClassGetAttr(last.cls, PropName)[1] = "ok"
    /\ \E i \in InstancesOf(classes[last.cls].bases[1]) :
          InstGetAttr(i, PropName)[1] = "NotImplementedError"

---------------------------------------------------------------------------
---------------------------------------------------------------------------
====
